---- MODULE Spec2Model ----
(***************************************************************************)
(* Model of src/logic.py: the arbitrage detector over bookmaker odds.      *)
(*                                                                         *)
(* JSON objects are functions whose DOMAIN is the set of keys present, so  *)
(* a missing key is a key outside DOMAIN.  JSON arrays are sequences.      *)
(* Strings that the code transforms (status) are sequences of characters.  *)
(* Floats are exact rationals <<n, d>> with d > 0 in lowest terms.         *)
(***************************************************************************)
EXTENDS Integers, Sequences, FiniteSets, TLC

VARIABLES
    pc,          \* position of get_upcoming_arbitrage_opportunities / of the harness
    now,         \* time.time(), in seconds
    cutoff,      \* the cutoff argument, a rational
    sports,      \* iteration order of the set returned by get_sports
    sportIdx,    \* index of the sport whose snapshot is being processed
    events,      \* the list handed to process_upcoming_events_data
    evIdx,       \* next event of that list the generator looks at
    yielded,     \* what the consumer has received, in order
    fetches,     \* the HTTP requests issued so far, in order
    error,       \* the exception that left the generator, or "none"
    results,     \* records produced by process_upcoming_events_data (first pass)
    results2,    \* records produced by the second pass over the same list
    perm         \* the permutation of bookmakers applied by the harness

vars == <<pc, now, cutoff, sports, sportIdx, events, evIdx, yielded, fetches,
          error, results, results2, perm>>

----------------------------------------------------------------------------
(* Bounds of the model *)

MaxBookmakers == 2
MaxEvents == 2
MaxSports == 2
MaxTime == 1

----------------------------------------------------------------------------
(* Float arithmetic, as exact rationals *)

RECURSIVE GCD(_, _)
GCD(a, b) == IF b = 0 THEN a ELSE GCD(b, a % b)

Abs(x) == IF x < 0 THEN -x ELSE x

\* the rational n/d (d # 0) in lowest terms with positive denominator
Rat(n, d) ==
    LET g == GCD(Abs(n), Abs(d))
        s == IF d < 0 THEN -1 ELSE 1
    IN  <<(s * n) \div g, (s * d) \div g>>

RatZero == <<0, 1>>
RatOne == <<1, 1>>

RatAdd(a, b) == Rat(a[1] * b[2] + b[1] * a[2], a[2] * b[2])
RatSub(a, b) == Rat(a[1] * b[2] - b[1] * a[2], a[2] * b[2])
\* 1/a, for a # 0
RatInv(a) == Rat(a[2], a[1])
RatLess(a, b) == a[1] * b[2] < b[1] * a[2]
RatGreater(a, b) == RatLess(b, a)

----------------------------------------------------------------------------
(* str.lower() on the characters that occur in status values *)

LowerChar(c) ==
    CASE c = "U" -> "u" [] c = "P" -> "p" [] c = "C" -> "c" [] c = "O" -> "o"
      [] c = "M" -> "m" [] c = "I" -> "i" [] c = "N" -> "n" [] c = "G" -> "g"
      [] c = "R" -> "r" [] c = "E" -> "e" [] c = "A" -> "a" [] c = "T" -> "t"
      [] c = "H" -> "h" [] c = "L" -> "l" [] c = "V" -> "v"
      [] OTHER -> c

\* Lower without the conversion: the comparison becomes case-sensitive
LowerUnchanged(s) == s

Lower(s) == [i \in 1..Len(s) |-> LowerChar(s[i])]

STR_UPCOMING == <<"u", "p", "c", "o", "m", "i", "n", "g">>
STR_PRE_MATCH == <<"p", "r", "e", "-", "m", "a", "t", "c", "h">>

HasKey(d, k) == k \in DOMAIN d

\* event.get("status", "").lower()
StatusOf(event) == Lower(IF HasKey(event, "status") THEN event.status ELSE <<>>)

\* the condition of the if statement that guards the body of the loop
PassesFilter(event) ==
    /\ HasKey(event, "commence_time")
    /\ (StatusOf(event) = STR_UPCOMING \/ StatusOf(event) = STR_PRE_MATCH)

----------------------------------------------------------------------------
(* best_odd_per_outcome: a dict, kept as the sequence of its entries in     *)
(* insertion order; assigning to an existing key keeps the key's position.  *)

DictKeys(d) == {d[i].name : i \in 1..Len(d)}

DictGet(d, k) == LET i == CHOOSE j \in 1..Len(d) : d[j].name = k IN d[i]

DictPut(d, k, bookie, odd) ==
    LET entry == [name |-> k, bookie |-> bookie, price |-> odd]
    IN  IF k \in DictKeys(d)
        THEN [i \in 1..Len(d) |-> IF d[i].name = k THEN entry ELSE d[i]]
        ELSE Append(d, entry)

\* UpdateBest with >= for >: a later bookmaker with an equal price replaces
UpdateBestOnTie(best, bookie_name, outcome) ==
    IF \/ outcome.name \notin DictKeys(best)
       \/ ~RatLess(outcome.price, DictGet(best, outcome.name).price)
    THEN DictPut(best, outcome.name, bookie_name, outcome.price)
    ELSE best

\* UpdateBest without the comparison: the first quote of an outcome is kept
UpdateBestFirstSeen(best, bookie_name, outcome) ==
    IF outcome.name \notin DictKeys(best)
    THEN DictPut(best, outcome.name, bookie_name, outcome.price)
    ELSE best

\* the body of the inner loop: one outcome of one bookmaker
UpdateBest(best, bookie_name, outcome) ==
    IF \/ outcome.name \notin DictKeys(best)
       \/ RatGreater(outcome.price, DictGet(best, outcome.name).price)
    THEN DictPut(best, outcome.name, bookie_name, outcome.price)
    ELSE best

RECURSIVE FoldOutcomes(_, _, _)
FoldOutcomes(best, bookie_name, outcomes) ==
    IF outcomes = <<>> THEN best
    ELSE FoldOutcomes(UpdateBest(best, bookie_name, Head(outcomes)),
                      bookie_name, Tail(outcomes))

RECURSIVE FoldBookmakers(_, _)
FoldBookmakers(best, bookmakers) ==
    IF bookmakers = <<>> THEN best
    ELSE FoldBookmakers(
            FoldOutcomes(best, Head(bookmakers).title,
                         Head(bookmakers).markets[1].outcomes),
            Tail(bookmakers))

\* best_odd_per_outcome after the loop over event["bookmakers"]
BestOddPerOutcome(bookmakers) == FoldBookmakers(<<>>, bookmakers)

\* sum(1/i[1] for i in best_odd_per_outcome.values()), summed in dict order from 0
RECURSIVE SumImplied(_, _)
SumImplied(acc, d) ==
    IF d = <<>> THEN acc
    ELSE SumImplied(RatAdd(acc, RatInv(Head(d).price)), Tail(d))

TotalImpliedOdds(best) == SumImplied(RatZero, best)

----------------------------------------------------------------------------
(* The exception a structural access raises, in the order the code         *)
(* performs the accesses; "none" when every access succeeds.                *)

OutcomeError(outcome) ==
    IF ~HasKey(outcome, "name") \/ ~HasKey(outcome, "price") THEN "KeyError"
    ELSE "none"

RECURSIVE OutcomesError(_)
OutcomesError(outcomes) ==
    IF outcomes = <<>> THEN "none"
    ELSE IF OutcomeError(Head(outcomes)) # "none" THEN OutcomeError(Head(outcomes))
    ELSE OutcomesError(Tail(outcomes))

BookmakerError(bookmaker) ==
    IF ~HasKey(bookmaker, "title") THEN "KeyError"
    ELSE IF ~HasKey(bookmaker, "markets") THEN "KeyError"
    ELSE IF bookmaker.markets = <<>> THEN "IndexError"
    ELSE IF ~HasKey(bookmaker.markets[1], "outcomes") THEN "KeyError"
    ELSE OutcomesError(bookmaker.markets[1].outcomes)

RECURSIVE BookmakersError(_)
BookmakersError(bookmakers) ==
    IF bookmakers = <<>> THEN "none"
    ELSE IF BookmakerError(Head(bookmakers)) # "none" THEN BookmakerError(Head(bookmakers))
    ELSE BookmakersError(Tail(bookmakers))

EventError(event) ==
    IF ~HasKey(event, "bookmakers") THEN "KeyError"
    ELSE IF BookmakersError(event.bookmakers) # "none" THEN BookmakersError(event.bookmakers)
    ELSE IF \/ ~HasKey(event, "home_team") \/ ~HasKey(event, "away_team")
            \/ ~HasKey(event, "sport_key") THEN "KeyError"
    ELSE "none"

SecondsPerHour == 3600

\* EventRecord with the start time taken relative to the clock
EventRecordRelativeStart(event, t) ==
    LET best == BestOddPerOutcome(event.bookmakers)
    IN  [match_name |-> <<event.home_team, " v. ", event.away_team>>,
         match_start_time |-> event.commence_time - t,
         hours_to_start |-> Rat(event.commence_time - t, SecondsPerHour),
         league |-> event.sport_key,
         best_outcome_odds |-> best,
         total_implied_odds |-> TotalImpliedOdds(best)]

\* the dict yielded for an event that passes the filter and raises nothing
EventRecord(event, t) ==
    LET best == BestOddPerOutcome(event.bookmakers)
    IN  [match_name |-> <<event.home_team, " v. ", event.away_team>>,
         match_start_time |-> event.commence_time,
         hours_to_start |-> Rat(event.commence_time - t, SecondsPerHour),
         league |-> event.sport_key,
         best_outcome_odds |-> best,
         total_implied_odds |-> TotalImpliedOdds(best)]

\* IsArbitrage with <= for the upper bound
IsArbitrageInclusive(x, c) ==
    /\ RatLess(RatZero, x.total_implied_odds)
    /\ ~RatLess(RatSub(RatOne, c), x.total_implied_odds)

\* IsArbitrage without the lower bound
IsArbitrageNoLowerBound(x, c) == RatLess(x.total_implied_odds, RatSub(RatOne, c))

\* the lambda handed to filter(): 0 < x["total_implied_odds"] < 1 - cutoff
IsArbitrage(x, c) ==
    /\ RatLess(RatZero, x.total_implied_odds)
    /\ RatLess(x.total_implied_odds, RatSub(RatOne, c))

\* ProcessStep that skips an event whose structure is wrong
ProcessStepSkipBad(event, t) ==
    IF ~PassesFilter(event) \/ EventError(event) # "none" THEN [kind |-> "drop"]
    ELSE [kind |-> "record", rec |-> EventRecord(event, t)]

\* one iteration of the loop over events: the event is skipped, a structural
\* access raises, or a dict is yielded
ProcessStep(event, t) ==
    IF ~PassesFilter(event) THEN [kind |-> "drop"]
    ELSE IF EventError(event) # "none" THEN [kind |-> "raise", err |-> EventError(event)]
    ELSE [kind |-> "record", rec |-> EventRecord(event, t)]

----------------------------------------------------------------------------
(* Sample data *)

Without(d, k) == [x \in DOMAIN d \ {k} |-> d[x]]

Range(s) == {s[i] : i \in 1..Len(s)}

\* sequences over S of length at most n
SeqUpTo(S, n) == UNION {[1..k -> S] : k \in 0..n}

Outcome(name, n, d) == [name |-> name, price |-> Rat(n, d)]

Bookmaker(title, outcomes) == [title |-> title, markets |-> <<[outcomes |-> outcomes]>>]

\* what one bookmaker may quote in its first market
OutcomeLists ==
    {<<Outcome("Home", h, 10), Outcome("Away", a, 10)>> : h \in {20, 21}, a \in {19, 20}}
    \cup {<<Outcome("Home", h, 10)>> : h \in {20, 21}}
    \cup {<<Outcome("Draw", 30, 10), Outcome("Home", 21, 10)>>}

BookmakerPool == {Bookmaker(t, o) : t \in {"A", "B"}, o \in OutcomeLists}

Event(status, start, bookmakers) ==
    [sport_key |-> "soccer", home_team |-> "H", away_team |-> "W",
     commence_time |-> start, status |-> status, bookmakers |-> bookmakers]

STR_UPCOMING_UPPER == <<"U", "P", "C", "O", "M", "I", "N", "G">>
STR_PRE_MATCH_MIXED == <<"P", "r", "e", "-", "M", "a", "t", "c", "h">>
STR_LIVE == <<"l", "i", "v", "e">>

\* the permutations of 1..n, as functions
Perms(n) == {p \in [1..n -> 1..n] : \A i, j \in 1..n : p[i] = p[j] => i = j}

Permute(s, p) == [i \in 1..Len(s) |-> s[p[i]]]

----------------------------------------------------------------------------
(* SpecAgg: process_upcoming_events_data on a list of one event, and on    *)
(* the same event with its bookmakers list permuted.                        *)

\* list(process_upcoming_events_data([event])) evaluated at time t
ProcessOne(event, t) ==
    IF ProcessStep(event, t).kind = "record" THEN <<ProcessStep(event, t).rec>>
    ELSE <<>>

InitAgg ==
    /\ pc = "agg_start"
    /\ now = 0
    /\ cutoff = RatZero
    /\ sports = <<>>
    /\ sportIdx = 0
    /\ \E bms \in SeqUpTo(BookmakerPool, MaxBookmakers) :
          events = <<Event(STR_UPCOMING, MaxTime + 1, bms)>>
    /\ evIdx = 1
    /\ yielded = <<>>
    /\ fetches = <<>>
    /\ error = "none"
    /\ results = <<>>
    /\ results2 = <<>>
    /\ perm = <<>>

Aggregate ==
    /\ pc = "agg_start"
    /\ results' = ProcessOne(events[1], now)
    /\ pc' = "agg_first"
    /\ UNCHANGED <<now, cutoff, sports, sportIdx, events, evIdx, yielded,
                   fetches, error, results2, perm>>

AggregatePermuted ==
    /\ pc = "agg_first"
    /\ \E p \in Perms(Len(events[1].bookmakers)) :
          /\ perm' = p
          /\ results2' = ProcessOne(
                [events[1] EXCEPT !.bookmakers = Permute(@, p)], now)
    /\ pc' = "agg_second"
    /\ UNCHANGED <<now, cutoff, sports, sportIdx, events, evIdx, yielded,
                   fetches, error, results>>

NextAgg == Aggregate \/ AggregatePermuted

SpecAgg == InitAgg /\ [][NextAgg]_vars

----------------------------------------------------------------------------
(* Properties of the aggregation, under SpecAgg *)

\* the bookmakers of the event, in input order
InputBookmakers == events[1].bookmakers

\* the prices bookmaker i quotes for outcome name n in its first market
PricesOf(bms, i, n) ==
    {bms[i].markets[1].outcomes[j].price : j \in
        {k \in 1..Len(bms[i].markets[1].outcomes) : bms[i].markets[1].outcomes[k].name = n}}

QuotedNames(bms) ==
    UNION {{bms[i].markets[1].outcomes[j].name : j \in 1..Len(bms[i].markets[1].outcomes)} :
            i \in 1..Len(bms)}

AllPricesOf(bms, n) == UNION {PricesOf(bms, i, n) : i \in 1..Len(bms)}

\* p is the greatest price quoted for n
IsMaxPrice(bms, n, p) ==
    /\ p \in AllPricesOf(bms, n)
    /\ \A q \in AllPricesOf(bms, n) : q[1] * p[2] <= p[1] * q[2]

\* the first bookmaker, in input order, that quotes price p for n
FirstQuoting(bms, n, p) ==
    CHOOSE i \in 1..Len(bms) :
        /\ p \in PricesOf(bms, i, n)
        /\ \A k \in 1..(i - 1) : p \notin PricesOf(bms, k, n)

\* the entries of a dict, without their order
DictItems(d) == Range(d)

\* C1: for every outcome name quoted by some bookmaker of a processed event,
\* best_outcome_odds holds the greatest price quoted for it, under the title of
\* the first bookmaker in input order that quotes that price.
C1_BestPriceFirstBookmaker ==
    pc # "agg_start" =>
        /\ Len(results) = 1
        /\ DictKeys(results[1].best_outcome_odds) = QuotedNames(InputBookmakers)
        /\ \A n \in QuotedNames(InputBookmakers) :
              LET e == DictGet(results[1].best_outcome_odds, n)
              IN  /\ IsMaxPrice(InputBookmakers, n, e.price)
                  /\ e.bookie = InputBookmakers[FirstQuoting(InputBookmakers, n, e.price)].title

\* two bookmakers of different titles quote the same greatest price for Home,
\* and the later one the greater price for Away
C1_Witness ==
    /\ pc = "agg_first"
    /\ Len(InputBookmakers) = 2
    /\ InputBookmakers[1].title = "A" /\ InputBookmakers[2].title = "B"
    /\ PricesOf(InputBookmakers, 1, "Home") = {Rat(21, 10)}
    /\ PricesOf(InputBookmakers, 2, "Home") = {Rat(21, 10)}
    /\ PricesOf(InputBookmakers, 1, "Away") = {Rat(19, 10)}
    /\ PricesOf(InputBookmakers, 2, "Away") = {Rat(20, 10)}
    /\ DictGet(results[1].best_outcome_odds, "Home").bookie = "A"
    /\ DictGet(results[1].best_outcome_odds, "Away").bookie = "B"

\* C7 as stated: every permutation of the bookmakers gives the same
\* (bookmaker, price) for every outcome and the same total.
C7_SameMappingUnderPermutation ==
    pc = "agg_second" =>
        /\ DictItems(results2[1].best_outcome_odds) = DictItems(results[1].best_outcome_odds)
        /\ results2[1].total_implied_odds = results[1].total_implied_odds

\* C7 amended: every permutation gives the same outcome names, the same price
\* for every outcome and the same total; the bookmaker recorded for an outcome
\* differs only between bookmakers that both quote the greatest price.
C7_SamePricesUnderPermutation ==
    pc = "agg_second" =>
        LET b1 == results[1].best_outcome_odds
            b2 == results2[1].best_outcome_odds
        IN  /\ DictKeys(b1) = DictKeys(b2)
            /\ \A n \in DictKeys(b1) :
                  /\ DictGet(b1, n).price = DictGet(b2, n).price
                  /\ DictGet(b1, n).bookie # DictGet(b2, n).bookie =>
                        \E i, j \in 1..Len(InputBookmakers) :
                            /\ InputBookmakers[i].title = DictGet(b1, n).bookie
                            /\ InputBookmakers[j].title = DictGet(b2, n).bookie
                            /\ DictGet(b1, n).price \in PricesOf(InputBookmakers, i, n)
                            /\ DictGet(b1, n).price \in PricesOf(InputBookmakers, j, n)
            /\ results2[1].total_implied_odds = results[1].total_implied_odds

\* the bookmakers were swapped, and the bookmaker recorded for Home changed
\* while every price stayed
C7_Witness ==
    /\ pc = "agg_second"
    /\ perm = <<2, 1>>
    /\ DictGet(results[1].best_outcome_odds, "Home").bookie = "A"
    /\ DictGet(results2[1].best_outcome_odds, "Home").bookie = "B"
    /\ DictGet(results[1].best_outcome_odds, "Home").price
         = DictGet(results2[1].best_outcome_odds, "Home").price
    /\ "Away" \in DictKeys(results[1].best_outcome_odds)

----------------------------------------------------------------------------
(* Raw events used by SpecProc and Spec *)

\* total 1/2.10 + 1/2.00 = 41/42
QuotesA ==
    <<Bookmaker("A", <<Outcome("Home", 21, 10), Outcome("Away", 19, 10)>>),
      Bookmaker("B", <<Outcome("Home", 205, 100), Outcome("Away", 20, 10)>>)>>

\* total 1/1.50 + 1/2.50 = 16/15
QuotesB == <<Bookmaker("A", <<Outcome("Home", 15, 10), Outcome("Away", 25, 10)>>)>>

\* total 1/4 + 1/5 + 1/2 = 19/20
QuotesC ==
    <<Bookmaker("A", <<Outcome("Home", 4, 1), Outcome("Draw", 5, 1),
                       Outcome("Away", 2, 1)>>)>>

\* total 1/3 + 1/3 = 2/3
QuotesD ==
    <<Bookmaker("A", <<Outcome("Home", 3, 1), Outcome("Away", 25, 10)>>),
      Bookmaker("B", <<Outcome("Home", 3, 1), Outcome("Away", 3, 1)>>)>>

EvA == Event(STR_UPCOMING, MaxTime + 1, QuotesA)
EvB == Event(STR_PRE_MATCH_MIXED, MaxTime + 1, QuotesB)
EvC == Event(STR_UPCOMING_UPPER, MaxTime + 1, QuotesC)
EvD == Event(STR_PRE_MATCH, MaxTime + 1, QuotesD)
\* starts at time 1: upcoming only for a fetch made at time 0
EvSoon == Event(STR_UPCOMING, 1, QuotesC)
EvNoStatus == Without(Event(<<>>, MaxTime + 1, QuotesD), "status")
EvLive == Event(STR_LIVE, MaxTime + 1, QuotesD)
EvNoTime == Without(Event(STR_UPCOMING, 0, QuotesD), "commence_time")
EvEmpty == Event(STR_UPCOMING, MaxTime + 1, <<>>)
EvNoBookmakers == Without(Event(STR_UPCOMING, MaxTime + 1, <<>>), "bookmakers")
EvEmptyMarkets ==
    Event(STR_PRE_MATCH, MaxTime + 1,
          <<QuotesD[1], [title |-> "B", markets |-> <<>>]>>)
EvNoOutcomes ==
    Event(STR_UPCOMING, MaxTime + 1,
          <<[title |-> "A", markets |-> <<[key |-> "h2h"]>>]>>)
EvLiveNoBookmakers == Without(Event(STR_LIVE, MaxTime + 1, <<>>), "bookmakers")

RawEvents ==
    {EvA, EvB, EvC, EvD, EvNoStatus, EvLive, EvNoTime, EvEmpty, EvNoBookmakers,
     EvEmptyMarkets, EvNoOutcomes, EvLiveNoBookmakers}

Cutoffs == {Rat(0, 1), Rat(5, 100)}

\* cutoff = 0.05 in main()
MainCutoff == Rat(5, 100)

----------------------------------------------------------------------------
(* SpecProc: a caller runs filter(lambda, process_upcoming_events_data(events)) *)
(* to exhaustion twice on the same list, while time passes.                     *)

InitProc ==
    /\ pc = "pass1"
    /\ now = 0
    /\ cutoff \in Cutoffs
    /\ sports = <<>>
    /\ sportIdx = 0
    /\ events \in SeqUpTo(RawEvents, MaxEvents)
    /\ evIdx = 1
    /\ yielded = <<>>
    /\ fetches = <<>>
    /\ error = "none"
    /\ results = <<>>
    /\ results2 = <<>>
    /\ perm = <<>>

\* what the caller learns about the event at index i: the dict the generator
\* produced and whether the filter lets it through
Evaluated(i, rec) == [ev |-> i, rec |-> rec, emit |-> IsArbitrage(rec, cutoff)]

ProcDrop ==
    /\ pc \in {"pass1", "pass2"}
    /\ evIdx <= Len(events)
    /\ ProcessStep(events[evIdx], now).kind = "drop"
    /\ evIdx' = evIdx + 1
    /\ UNCHANGED <<pc, now, cutoff, sports, sportIdx, events, yielded, fetches,
                   error, results, results2, perm>>

ProcRaise ==
    /\ pc \in {"pass1", "pass2"}
    /\ evIdx <= Len(events)
    /\ ProcessStep(events[evIdx], now).kind = "raise"
    /\ error' = ProcessStep(events[evIdx], now).err
    /\ pc' = "raised"
    /\ UNCHANGED <<now, cutoff, sports, sportIdx, events, evIdx, yielded,
                   fetches, results, results2, perm>>

ProcRecord ==
    /\ pc \in {"pass1", "pass2"}
    /\ evIdx <= Len(events)
    /\ ProcessStep(events[evIdx], now).kind = "record"
    /\ LET r == Evaluated(evIdx, ProcessStep(events[evIdx], now).rec)
       IN  IF pc = "pass1"
           THEN results' = Append(results, r) /\ UNCHANGED results2
           ELSE results2' = Append(results2, r) /\ UNCHANGED results
    /\ evIdx' = evIdx + 1
    /\ UNCHANGED <<pc, now, cutoff, sports, sportIdx, events, yielded, fetches,
                   error, perm>>

ProcEnd ==
    /\ pc \in {"pass1", "pass2"}
    /\ evIdx > Len(events)
    /\ pc' = IF pc = "pass1" THEN "pass2" ELSE "proc_done"
    /\ evIdx' = 1
    /\ UNCHANGED <<now, cutoff, sports, sportIdx, events, yielded, fetches,
                   error, results, results2, perm>>

\* time.time() moves on: between two passes of the caller's loop, and while
\* the generator waits for the provider
Tick ==
    /\ now < MaxTime
    /\ pc \in {"pass1", "pass2", "start", "next_sport"}
    /\ now' = now + 1
    /\ UNCHANGED <<pc, cutoff, sports, sportIdx, events, evIdx, yielded, fetches,
                   error, results, results2, perm>>

NextProc == ProcDrop \/ ProcRaise \/ ProcRecord \/ ProcEnd \/ Tick

SpecProc == InitProc /\ [][NextProc]_vars

----------------------------------------------------------------------------
(* Properties of one pass over a list of events, under SpecProc *)

\* the status values of RawEvents that read "upcoming" or "pre-match" in some case
AcceptedStatuses ==
    {STR_UPCOMING, STR_UPCOMING_UPPER, STR_PRE_MATCH, STR_PRE_MATCH_MIXED}

\* the event has a commence_time and an accepted status
ShouldPass(e) ==
    /\ "commence_time" \in DOMAIN e
    /\ "status" \in DOMAIN e
    /\ e.status \in AcceptedStatuses

\* the event lacks bookmakers, or one of its bookmakers has no market or a
\* first market without outcomes
Malformed(e) ==
    \/ "bookmakers" \notin DOMAIN e
    \/ \E i \in 1..Len(e.bookmakers) :
          \/ e.bookmakers[i].markets = <<>>
          \/ "outcomes" \notin DOMAIN e.bookmakers[i].markets[1]

Indices(out) == [i \in 1..Len(out) |-> out[i].ev]

\* the indices up to n of the events that should pass, in input order
PassingUpTo(n) == SelectSeq([j \in 1..n |-> j], LAMBDA j : ShouldPass(events[j]))

\* C3: a pass over the list produces a record exactly for the events that have
\* a commence_time and a status reading "upcoming" or "pre-match" in any case,
\* in input order; an event that fails the test never raises.
C3_FilterKeepsOrder ==
    /\ pc = "pass1" => Indices(results) = PassingUpTo(evIdx - 1)
    /\ pc = "raised" =>
          /\ Indices(results) = PassingUpTo(evIdx - 1)
          /\ ShouldPass(events[evIdx])
    /\ pc \in {"pass2", "proc_done"} => Indices(results) = PassingUpTo(Len(events))
    /\ pc = "pass2" => Indices(results2) = PassingUpTo(evIdx - 1)
    /\ pc = "proc_done" => Indices(results2) = PassingUpTo(Len(events))

\* a live event without bookmakers is dropped, an upper-case status passes
C3_Witness ==
    /\ pc = "proc_done"
    /\ events = <<EvLiveNoBookmakers, EvC>>
    /\ Indices(results) = <<2>>
    /\ error = "none"

RECURSIVE ProdNum(_)
ProdNum(best) == IF best = <<>> THEN 1 ELSE Head(best).price[1] * ProdNum(Tail(best))

RECURSIVE SumOver(_, _)
SumOver(best, prod) ==
    IF best = <<>> THEN 0
    ELSE Head(best).price[2] * (prod \div Head(best).price[1]) + SumOver(Tail(best), prod)

\* total is the sum of 1/price over the entries of best
IsImpliedSum(total, best) == total[1] * ProdNum(best) = total[2] * SumOver(best, ProdNum(best))

\* 0 < n/d < 1 - c
BelowThreshold(total, c) ==
    /\ total[1] > 0
    /\ total[1] * c[2] < total[2] * (c[2] - c[1])

EvaluatedOK(r) ==
    /\ IsImpliedSum(r.rec.total_implied_odds, r.rec.best_outcome_odds)
    /\ r.emit <=> BelowThreshold(r.rec.total_implied_odds, cutoff)
    /\ (r.rec.total_implied_odds = Rat(19, 20) /\ cutoff = Rat(5, 100)) => ~r.emit
    /\ cutoff = RatZero => (r.emit <=> (r.rec.total_implied_odds[1] > 0
                                        /\ r.rec.total_implied_odds[1] < r.rec.total_implied_odds[2]))

\* C2: the record of a processed event is let through exactly when
\* 0 < total < 1 - cutoff, total being the sum of 1/price over its best odds;
\* a total equal to 1 - cutoff is not let through.
C2_StrictThreshold ==
    /\ \A i \in 1..Len(results) : EvaluatedOK(results[i])
    /\ \A i \in 1..Len(results2) : EvaluatedOK(results2[i])

\* total 0.95 against cutoff 0.05 is rejected, total 2/3 is let through
C2_Witness ==
    /\ pc = "pass2"
    /\ cutoff = Rat(5, 100)
    /\ events = <<EvC, EvD>>
    /\ Len(results) = 2
    /\ results[1].rec.total_implied_odds = Rat(95, 100) /\ ~results[1].emit
    /\ results[2].emit

NoBadEventUpTo(n) == \A j \in 1..n : ~(ShouldPass(events[j]) /\ Malformed(events[j]))

\* C6: a malformed event that passes the filter raises, and the pass ends
\* there: no record exists for it or for any event after it, the records of
\* the events before it are all there, and a pass ends normally only when the
\* list holds no such event.
C6_MalformedAborts ==
    /\ (error # "none") <=> (pc = "raised")
    /\ pc = "raised" =>
          /\ error \in {"KeyError", "IndexError"}
          /\ ShouldPass(events[evIdx]) /\ Malformed(events[evIdx])
          /\ Indices(results) = PassingUpTo(evIdx - 1)
          /\ results2 = <<>>
    /\ \A i \in 1..Len(results) : NoBadEventUpTo(results[i].ev)
    /\ \A i \in 1..Len(results2) : NoBadEventUpTo(results2[i].ev)
    /\ pc \in {"pass1", "pass2"} => NoBadEventUpTo(evIdx - 1)
    /\ pc \in {"pass2", "proc_done"} => NoBadEventUpTo(Len(events))

\* the record of the first event is delivered, the second event has a
\* bookmaker without markets and raises
C6_Witness ==
    /\ pc = "raised"
    /\ events = <<EvD, EvEmptyMarkets>>
    /\ error = "IndexError"
    /\ Len(results) = 1 /\ results[1].emit

\* C8 as stated: the second pass gives records equal to those of the first
\* in every field, hours_to_start included.
C8_SecondPassIdentical == pc = "proc_done" => results2 = results

SameButHours(r1, r2) ==
    /\ r1.ev = r2.ev
    /\ r1.emit = r2.emit
    /\ r1.rec.match_name = r2.rec.match_name
    /\ r1.rec.match_start_time = r2.rec.match_start_time
    /\ r1.rec.league = r2.rec.league
    /\ r1.rec.best_outcome_odds = r2.rec.best_outcome_odds
    /\ r1.rec.total_implied_odds = r2.rec.total_implied_odds
    /\ ~RatLess(r1.rec.hours_to_start, r2.rec.hours_to_start)

\* C8 amended: the second pass takes the same decisions and gives records
\* equal in every field but hours_to_start, which is read from the clock at
\* each pass and is never greater in the later pass.
C8_SecondPassSameButHours ==
    pc = "proc_done" =>
        /\ Len(results2) = Len(results)
        /\ \A i \in 1..Len(results) : SameButHours(results[i], results2[i])

\* the clock moved between the passes and hours_to_start with it
C8_Witness ==
    /\ pc = "proc_done"
    /\ Len(results) = 2 /\ Len(results2) = 2
    /\ results[1].emit /\ ~results[2].emit
    /\ RatLess(results2[1].rec.hours_to_start, results[1].rec.hours_to_start)

HasNoBookmaker(e) == "bookmakers" \in DOMAIN e /\ e.bookmakers = <<>>

\* C10 as stated: the aggregation of an event with an empty bookmakers list
\* fails, so that no record is produced for such an event.
C10_EmptyBookmakersFails ==
    \A i \in 1..Len(results) : ~HasNoBookmaker(events[results[i].ev])

\* C10 amended: an event that passes the filter with an empty bookmakers list
\* is aggregated without an error into a record with an empty best-odds
\* mapping and a total of 0, which the threshold test rejects.
C10_EmptyBookmakersEmptyRecord ==
    /\ \A j \in 1..Len(events) :
          (ShouldPass(events[j]) /\ HasNoBookmaker(events[j])
             /\ (pc \in {"pass2", "proc_done"} \/ (pc = "pass1" /\ j < evIdx))) =>
                \E i \in 1..Len(results) :
                    /\ results[i].ev = j
                    /\ results[i].rec.best_outcome_odds = <<>>
                    /\ results[i].rec.total_implied_odds = RatZero
                    /\ ~results[i].emit
    /\ pc = "raised" => ~HasNoBookmaker(events[evIdx])

\* the pass over a list holding such an event ended normally
C10_Witness ==
    /\ pc = "proc_done"
    /\ events = <<EvEmpty, EvA>>
    /\ cutoff = RatZero
    /\ Len(results) = 2
    /\ results[1].rec.best_outcome_odds = <<>> /\ ~results[1].emit
    /\ results[2].emit

----------------------------------------------------------------------------
(* The HTTP boundary *)

StatusCodes == {200, 401, 429, 500}

\* ResponseOk that takes only a server error for a failure
ResponseOkBelow500(status) == status < 500

\* bool(response): requests.Response is truthy unless the status is 4xx or 5xx
ResponseOk(status) == ~(400 <= status /\ status < 600)

\* the exception handle_faulty_response raises
HandleFaultyResponse(status) ==
    IF status = 401 THEN "AuthenticationException"
    ELSE IF status = 429 THEN "RateLimitException"
    ELSE "APIException"

APIExceptions == {"AuthenticationException", "RateLimitException", "APIException"}

AllSportKeys == <<"soccer", "tennis", "rugby", "golf">>
SportKeys == {AllSportKeys[i] : i \in 1..MaxSports}

\* the orders in which a for loop may visit the set {item["key"] for item in body}
SetOrders(body) ==
    {o \in SeqUpTo(Range(body), Len(body)) :
        /\ Range(o) = Range(body)
        /\ \A i, j \in 1..Len(o) : o[i] = o[j] => i = j}

STR_COMMENCE_TIME == <<"c", "o", "m", "m", "e", "n", "c", "e", "_", "t", "i", "m", "e">>
STR_MESSAGE == <<"m", "e", "s", "s", "a", "g", "e">>

\* needle in hay, for two strings
IsSubstring(needle, hay) ==
    \E i \in 0..(Len(hay) - Len(needle)) : SubSeq(hay, i + 1, i + Len(needle)) = needle

\* the events the provider may return for a sport
OddsEvents == {EvD, EvSoon, EvNoBookmakers, EvLive}

\* the JSON bodies of a successful odds response: a list of events of the
\* sport, or an error object, given by the list of its keys
OddsBodies(sport) ==
    {[kind |-> "array",
      items |-> [i \in 1..Len(l) |->
                    IF HasKey(l[i], "sport_key") THEN [l[i] EXCEPT !.sport_key = sport]
                    ELSE l[i]]] : l \in SeqUpTo(OddsEvents, MaxEvents)}
    \cup {[kind |-> "object", items |-> <<STR_MESSAGE>>]}

\* the condition of the list comprehension for one element of response.json():
\* a dict of the list, or a key of the error object; for a key, a string, "in"
\* is the substring test, which either fails or leads to ComprehensionError
KeepsItem(body, item, t) ==
    IF body.kind = "array"
    THEN HasKey(item, "commence_time") /\ item.commence_time > t
    ELSE FALSE

\* ComprehensionError when the key is indexed before it is tested
ComprehensionErrorOnObject(body) ==
    IF body.kind = "object" /\ body.items # <<>> THEN "TypeError" ELSE "none"

\* the exception the list comprehension raises: indexing a string with a string
ComprehensionError(body) ==
    IF body.kind = "object"
       /\ \E i \in 1..Len(body.items) : IsSubstring(STR_COMMENCE_TIME, body.items[i])
    THEN "TypeError" ELSE "none"

\* upcoming_events, when the comprehension raises nothing
UpcomingEvents(body, t) == SelectSeq(body.items, LAMBDA item : KeepsItem(body, item, t))

\* "message" in upcoming_events_data: the list holds dicts, and a str is
\* never equal to a dict
MessageIn(upcoming_events_data) ==
    \E i \in 1..Len(upcoming_events_data) : FALSE

----------------------------------------------------------------------------
(* Spec: get_upcoming_arbitrage_opportunities driven by a consumer that     *)
(* iterates it to the end.                                                  *)

Init ==
    /\ pc = "start"
    /\ now = 0
    /\ cutoff = MainCutoff
    /\ sports = <<>>
    /\ sportIdx = 0
    /\ events = <<>>
    /\ evIdx = 1
    /\ yielded = <<>>
    /\ fetches = <<>>
    /\ error = "none"
    /\ results = <<>>
    /\ results2 = <<>>
    /\ perm = <<>>

\* one entry of the log of requests: the resource asked for, the status of
\* the response, the kind of its JSON body ("none" when it is not read) and,
\* for the list of sports, the keys it holds
Request(target, status, body, keys) ==
    [target |-> target, status |-> status, body |-> body, keys |-> keys]

\* sports = get_sports(key), the response being an error
GetSportsFails ==
    /\ pc = "start"
    /\ \E status \in StatusCodes :
          /\ ~ResponseOk(status)
          /\ fetches' = Append(fetches, Request("sports", status, "none", {}))
          /\ error' = HandleFaultyResponse(status)
    /\ pc' = "raised"
    /\ UNCHANGED <<now, cutoff, sports, sportIdx, events, evIdx, yielded,
                   results, results2, perm>>

\* sports = get_sports(key), the response being a list of sports
GetSports ==
    /\ pc = "start"
    /\ \E status \in StatusCodes, body \in SeqUpTo(SportKeys, MaxSports) :
          /\ ResponseOk(status)
          /\ fetches' = Append(fetches, Request("sports", status, "array", Range(body)))
          /\ sports' \in SetOrders(body)
    /\ pc' = "next_sport"
    /\ UNCHANGED <<now, cutoff, sportIdx, events, evIdx, yielded, error,
                   results, results2, perm>>

\* the exception get_upcoming_events_data raises for a response, or "none"
FetchError(status, body) ==
    IF ~ResponseOk(status) THEN HandleFaultyResponse(status)
    ELSE ComprehensionError(body)

\* get_upcoming_events_data for the next sport raises
FetchOddsFails ==
    /\ pc = "next_sport"
    /\ sportIdx < Len(sports)
    /\ \E status \in StatusCodes :
       \E body \in IF ResponseOk(status) THEN OddsBodies(sports[sportIdx + 1])
                    ELSE {[kind |-> "none", items |-> <<>>]} :
          /\ FetchError(status, body) # "none"
          /\ fetches' = Append(fetches, Request(sports[sportIdx + 1], status, body.kind, {}))
          /\ error' = FetchError(status, body)
    /\ sportIdx' = sportIdx + 1
    /\ pc' = "raised"
    /\ UNCHANGED <<now, cutoff, sports, events, evIdx, yielded, results,
                   results2, perm>>

\* get_upcoming_events_data for the next sport returns, and the generator
\* over its events is set up unless "message" is in the list
FetchOdds ==
    /\ pc = "next_sport"
    /\ sportIdx < Len(sports)
    /\ \E status \in StatusCodes, body \in OddsBodies(sports[sportIdx + 1]) :
          /\ FetchError(status, body) = "none"
          /\ fetches' = Append(fetches, Request(sports[sportIdx + 1], status, body.kind, {}))
          /\ IF MessageIn(UpcomingEvents(body, now))
             THEN pc' = "next_sport" /\ UNCHANGED <<events, evIdx>>
             ELSE /\ pc' = "events"
                  /\ events' = UpcomingEvents(body, now)
                  /\ evIdx' = 1
    /\ sportIdx' = sportIdx + 1
    /\ UNCHANGED <<now, cutoff, sports, yielded, error, results, results2, perm>>

\* the generator skips an event that fails the status test
DropEvent ==
    /\ pc = "events"
    /\ evIdx <= Len(events)
    /\ ProcessStep(events[evIdx], now).kind = "drop"
    /\ evIdx' = evIdx + 1
    /\ UNCHANGED <<pc, now, cutoff, sports, sportIdx, events, yielded, fetches,
                   error, results, results2, perm>>

\* a structural access raises; the exception leaves both generators
FailEvent ==
    /\ pc = "events"
    /\ evIdx <= Len(events)
    /\ ProcessStep(events[evIdx], now).kind = "raise"
    /\ error' = ProcessStep(events[evIdx], now).err
    /\ pc' = "raised"
    /\ UNCHANGED <<now, cutoff, sports, sportIdx, events, evIdx, yielded,
                   fetches, results, results2, perm>>

\* the generator produces a dict, the filter rejects it
RejectEvent ==
    /\ pc = "events"
    /\ evIdx <= Len(events)
    /\ ProcessStep(events[evIdx], now).kind = "record"
    /\ ~IsArbitrage(ProcessStep(events[evIdx], now).rec, cutoff)
    /\ evIdx' = evIdx + 1
    /\ UNCHANGED <<pc, now, cutoff, sports, sportIdx, events, yielded, fetches,
                   error, results, results2, perm>>

\* the generator produces a dict, the filter accepts it, the consumer gets it
YieldEvent ==
    /\ pc = "events"
    /\ evIdx <= Len(events)
    /\ ProcessStep(events[evIdx], now).kind = "record"
    /\ IsArbitrage(ProcessStep(events[evIdx], now).rec, cutoff)
    /\ yielded' = Append(yielded, ProcessStep(events[evIdx], now).rec)
    /\ evIdx' = evIdx + 1
    /\ UNCHANGED <<pc, now, cutoff, sports, sportIdx, events, fetches, error,
                   results, results2, perm>>

\* EndSport that leaves the events of the sport before they are exhausted
EndSportEarly ==
    /\ pc = "events"
    /\ pc' = "next_sport"
    /\ UNCHANGED <<now, cutoff, sports, sportIdx, events, evIdx, yielded,
                   fetches, error, results, results2, perm>>

\* yield from is exhausted: back to the loop over sports
EndSport ==
    /\ pc = "events"
    /\ evIdx > Len(events)
    /\ pc' = "next_sport"
    /\ UNCHANGED <<now, cutoff, sports, sportIdx, events, evIdx, yielded,
                   fetches, error, results, results2, perm>>

\* the loop over sports is exhausted: the generator returns
Finish ==
    /\ pc = "next_sport"
    /\ sportIdx = Len(sports)
    /\ pc' = "done"
    /\ UNCHANGED <<now, cutoff, sports, sportIdx, events, evIdx, yielded,
                   fetches, error, results, results2, perm>>

Next ==
    \/ GetSportsFails \/ GetSports \/ FetchOddsFails \/ FetchOdds
    \/ DropEvent \/ FailEvent \/ RejectEvent \/ YieldEvent
    \/ EndSport \/ Finish \/ Tick

Spec == Init /\ [][Next]_vars

----------------------------------------------------------------------------
(* Properties of the run over all sports, under Spec *)

IsPrefix(a, b) == Len(a) <= Len(b) /\ SubSeq(b, 1, Len(a)) = a

\* the exception type that stands for a failed status
ExpectedException(status) ==
    CASE status = 401 -> "AuthenticationException"
      [] status = 429 -> "RateLimitException"
      [] OTHER -> "APIException"

FailedStatuses == {401, 429, 500}

C4_State ==
    /\ \A i \in 1..Len(fetches) :
          fetches[i].status \in FailedStatuses =>
              /\ i = Len(fetches)
              /\ pc = "raised"
              /\ error = ExpectedException(fetches[i].status)
    /\ error \in APIExceptions =>
          /\ pc = "raised"
          /\ fetches[Len(fetches)].status \in FailedStatuses
          /\ Len(fetches) = sportIdx + 1
    /\ \A i, j \in 1..Len(fetches) : fetches[i].target = fetches[j].target => i = j

C4_Step ==
    /\ error # "none" => UNCHANGED <<error, fetches, yielded, sportIdx>>
    /\ (error = "none" /\ error' # "none") => yielded' = yielded
    /\ IsPrefix(yielded, yielded')

\* C4: a failed fetch of the sports or of a sport's odds leaves the generator
\* as the exception of its status, unchanged; the request is the last one ever
\* issued, no request is issued twice, and nothing is yielded from then on,
\* while what was yielded before stays.
C4_FetchErrorEndsRun == []C4_State /\ [][C4_Step]_vars

\* the odds of the second sport hit the rate limit after the first sport
\* yielded an opportunity
C4_Witness ==
    /\ pc = "raised"
    /\ error = "RateLimitException"
    /\ Len(sports) = 2 /\ sportIdx = 2
    /\ Len(fetches) = 3 /\ fetches[3].status = 429
    /\ Len(yielded) >= 1

\* C5: a sport whose odds response is an error object yields nothing and
\* raises nothing; its list of events is empty, the loop goes on to the next
\* sport, and a run that ends normally has fetched every sport.
C5_ErrorPayloadSkipsSport ==
    /\ \A i \in 2..Len(fetches) :
          fetches[i].body = "object" =>
              /\ \A k \in 1..Len(yielded) : yielded[k].league # fetches[i].target
              /\ i = Len(fetches) =>
                    /\ error = "none"
                    /\ pc \in {"events", "next_sport", "done"}
                    /\ pc = "events" => (events = <<>> /\ ENABLED EndSport)
                    /\ pc = "next_sport" => ENABLED (FetchOdds \/ Finish)
    /\ pc = "done" => Len(fetches) = Len(sports) + 1

\* the first sport answered with an error object, the second was fetched and
\* yielded an opportunity
C5_Witness ==
    /\ pc = "done"
    /\ Len(fetches) = 3
    /\ fetches[2].body = "object" /\ fetches[3].body = "array"
    /\ Len(yielded) >= 1

PosOf(l) == CHOOSE i \in 1..Len(sports) : sports[i] = l

C9_State ==
    /\ Len(fetches) = (IF pc = "start" THEN 0 ELSE sportIdx + 1)
    /\ Len(fetches) >= 1 => fetches[1].target = "sports"
    /\ \A i \in 2..Len(fetches) : fetches[i].target = sports[i - 1]
    /\ \A i, j \in 1..Len(sports) : sports[i] = sports[j] => i = j
    /\ (Len(fetches) >= 1 /\ fetches[1].body = "array") => Range(sports) = fetches[1].keys
    /\ pc = "done" => sportIdx = Len(sports)
    /\ \A k \in 1..Len(yielded) :
          /\ yielded[k].league \in Range(sports)
          /\ PosOf(yielded[k].league) <= sportIdx
          /\ \A m \in 1..(k - 1) : PosOf(yielded[m].league) <= PosOf(yielded[k].league)

C9_Step ==
    /\ (fetches' # fetches /\ pc # "start") =>
          (pc = "next_sport" /\ evIdx > Len(events) /\ Len(fetches') = Len(fetches) + 1)
    /\ yielded' # yielded =>
          /\ pc = "events" /\ evIdx <= Len(events)
          /\ yielded' = Append(yielded, EventRecord(events[evIdx], now))
          /\ evIdx' = evIdx + 1
          /\ events' = events /\ sportIdx' = sportIdx
    /\ sportIdx' = sportIdx => (evIdx' >= evIdx /\ events' = events)
    /\ sportIdx' >= sportIdx

\* C9: one odds request per sport of the catalog, in the order of iteration;
\* the request for the next sport is issued only once every event of the
\* current one has been looked at; what is yielded is appended event by event
\* in list order, so grouped by sport in the order of iteration, and nothing
\* is removed or reordered.
C9_SequentialSinglePass == []C9_State /\ [][C9_Step]_vars

\* two sports were fetched one after the other; the first yielded the same
\* opportunity twice, the second yielded after it
C9_Witness ==
    /\ pc = "done"
    /\ Len(sports) = 2 /\ Len(fetches) = 3
    /\ Len(yielded) = 3
    /\ yielded[1] = yielded[2]
    /\ yielded[1].league = sports[1]
    /\ yielded[3].league = sports[2]

====
